---- MODULE Spec2Model ----
(***************************************************************************)
(* Student registry: the two record stores of the repository.             *)
(*                                                                         *)
(*   variant = "basic"  services/manager.py  StudentManager: a list of     *)
(*                      Student objects persisted to a JSON file by        *)
(*                      save_students after every mutation.                *)
(*   variant = "adv"    ui/app.py  AdvancedStudentManager: an in-memory    *)
(*                      list seeded with sample data, with a statistics    *)
(*                      cache cleared by every mutation.                   *)
(*                                                                         *)
(* A Student is modelled by the attributes the store operations read or    *)
(* write: student_id, age (standing for the plain data attributes, which   *)
(* the managers all treat alike) and last_updated.  Identifiers are        *)
(* sequences of one-character strings so that slicing, int() and the       *)
(* "{n:03d}" format are computed, not assumed.                             *)
(*                                                                         *)
(* The validators, the query and statistics engines and the import read    *)
(* the other attributes.  Their specifications start from what the         *)
(* operator supplies, held in input (the data of a form, the text of the   *)
(* search box, the rows of a CSV file), and, for the queries, from lists   *)
(* of records that hold every attribute (StudentRecord).  With two        *)
(* callers registering on one store, input holds where each caller is in   *)
(* the registration and the id it was given.                               *)
(***************************************************************************)
EXTENDS Integers, Sequences, FiniteSets, TLC

VARIABLES variant, students, file, cache_stats, cache_time, now, last, held, faults,
          input

vars == <<variant, students, file, cache_stats, cache_time, now, last, held, faults,
          input>>

\* ------------------------------------------------------------------ bounds
\* longest live list the model builds (the code has no limit)
MaxStudents == 3
\* largest numeric suffix a registration may issue
MaxIssued == 4
\* how many calls of save_students fail in one run
MaxFaults == 1
\* how many of the sample records the richer store starts with
SampleSize == 2

\* ------------------------------------------------------- python primitives
DigitChars == <<"0", "1", "2", "3", "4", "5", "6", "7", "8", "9">>

IsDigit(c) == \E i \in 1..10 : DigitChars[i] = c

DigitVal(c) == (CHOOSE i \in 1..10 : DigitChars[i] = c) - 1

\* s[k:] of a python string
Slice(s, k) == IF k >= Len(s) THEN <<>> ELSE SubSeq(s, k + 1, Len(s))

\* int(s) succeeds (over letters and digits: a non-empty run of digits)
IsIntLiteral(s) == Len(s) > 0 /\ \A i \in 1..Len(s) : IsDigit(s[i])

RECURSIVE IntValue(_)
IntValue(s) ==
    IF s = <<>> THEN 0
    ELSE 10 * IntValue(SubSeq(s, 1, Len(s) - 1)) + DigitVal(s[Len(s)])

RECURSIVE Digits(_)
Digits(n) ==
    IF n < 10 THEN <<DigitChars[n + 1]>>
    ELSE Digits(n \div 10) \o <<DigitChars[(n % 10) + 1]>>

\* the format "{n:03d}"
RECURSIVE Pad3(_)
Pad3(ds) == IF Len(ds) >= 3 THEN ds ELSE Pad3(<<"0">> \o ds)

Max(S) == CHOOSE m \in S : \A x \in S : x <= m

\* ------------------------------------------------------------- the entity
STU == <<"S", "T", "U">>
ST == <<"S", "T">>

\* Student(...) as constructed at time t
Student(student_id, age, t) ==
    [student_id |-> student_id, age |-> age, last_updated |-> t]

to_dict(s) ==
    [student_id |-> s.student_id, age |-> s.age, last_updated |-> s.last_updated]

\* from_dict passes no last_updated: the constructor stamps the current time
from_dict(d, t) == Student(d.student_id, d.age, t)

\* hasattr(student, key) for the keys the model draws
StudentAttrs == {"student_id", "age", "last_updated"}

HasAttr(key) == key \in StudentAttrs

Ids(studs) == {studs[i].student_id : i \in 1..Len(studs)}

Has(studs, id) == \E i \in 1..Len(studs) : studs[i].student_id = id

FirstIndex(studs, id) ==
    CHOOSE i \in 1..Len(studs) :
        /\ studs[i].student_id = id
        /\ \A j \in 1..(i - 1) : studs[j].student_id # id

\* the loop index used after a loop that found nothing
Find_last(studs, id) == IF Has(studs, id) THEN FirstIndex(studs, id) ELSE Len(studs)

\* "for student in self.students: if student.student_id == student_id": the
\* index of the first match, 0 when the loop ends without one
Find(studs, id) == IF Has(studs, id) THEN FirstIndex(studs, id) ELSE 0

RemoveAt(studs, i) == SubSeq(studs, 1, i - 1) \o SubSeq(studs, i + 1, Len(studs))

\* the comprehension building its result back to front
RECURSIVE Without_prepend(_, _)
Without_prepend(studs, ids) ==
    IF studs = <<>> THEN <<>>
    ELSE IF Head(studs).student_id \in ids
         THEN Without_prepend(Tail(studs), ids)
         ELSE Without_prepend(Tail(studs), ids) \o <<Head(studs)>>

\* [s for s in studs if s.student_id not in ids]
RECURSIVE Without(_, _)
Without(studs, ids) ==
    IF studs = <<>> THEN <<>>
    ELSE IF Head(studs).student_id \in ids
         THEN Without(Tail(studs), ids)
         ELSE <<Head(studs)>> \o Without(Tail(studs), ids)

\* for key, value in kwargs.items(): if hasattr(student, key): setattr(...)
RECURSIVE ApplyKwargs(_, _)
ApplyKwargs(s, kwargs) ==
    IF kwargs = <<>> THEN s
    ELSE LET key == Head(kwargs)[1]
             value == Head(kwargs)[2]
         IN ApplyKwargs(IF HasAttr(key) THEN [s EXCEPT ![key] = value] ELSE s,
                        Tail(kwargs))

\* the first student with this id: <<student>>, or <<>> for None
GetStudent(studs, id) ==
    IF Has(studs, id) THEN <<studs[FirstIndex(studs, id)]>> ELSE <<>>

\* --------------------------------------------------------------- inputs
FormatId(prefix, n) == prefix \o Pad3(Digits(n))

Prefix == IF variant = "basic" THEN STU ELSE ST

\* the numeric suffix of a well-formed id of this store
IdNum(id) == IntValue(Slice(id, Len(Prefix)))

IdNums(studs) ==
    {IdNum(studs[i].student_id) :
        i \in {j \in 1..Len(studs) : IsIntLiteral(Slice(studs[j].student_id, Len(Prefix)))}}

\* history: the largest numeric suffix any record of the store has ever had
HeldAfter(studs) == Max({held} \cup IdNums(studs))

\* the numeric suffixes of the ids callers supply
CallerNums == 1..2

BasicIds == {FormatId(STU, n) : n \in CallerNums}

AdvIds == {FormatId(ST, n) : n \in CallerNums}

CallerIds == IF variant = "basic" THEN BasicIds ELSE AdvIds

Ages == {20, 12}

\* keyword arguments of update_student, as (key, value) pairs in call order:
\* a data attribute, the identifier, and a name no Student has
Kwargs(ids) ==
    {<<p>> : p \in {<<"age", a>> : a \in Ages} \cup {<<"student_id", i>> : i \in ids}
                      \cup {<<"nickname", 20>>}}
        \cup {<<<<"age", 12>>, <<"nickname", 20>>>>}

BasicKwargs == Kwargs(BasicIds)

AdvKwargs == Kwargs(AdvIds)

KwargsSet == IF variant = "basic" THEN BasicKwargs ELSE AdvKwargs

\* ---------------------------------------------------------- persistence
SaveOutcomes == {"ok", "open_failed", "write_failed"}

\* open(data_file, 'w') truncates; json.dump then writes the list
FileAfterSave(studs, outcome) ==
    CASE outcome = "ok" ->
            [state |-> "valid", data |-> [i \in 1..Len(studs) |-> to_dict(studs[i])]]
      [] outcome = "open_failed" -> file
      [] outcome = "write_failed" -> [state |-> "corrupt", data |-> <<>>]

\* the outcomes save_students can still have: a failure spends the fault budget
Outcomes == IF faults < MaxFaults THEN SaveOutcomes ELSE {"ok"}

Spent(outcome) == IF outcome = "ok" THEN faults ELSE faults + 1

Result(op, ok, msg, save, ret) ==
    [op |-> op, ok |-> ok, msg |-> msg, save |-> save, ret |-> ret]

\* what the caller gets back: op names the call; ok/msg are the returned
\* (success, message) pair; save is what save_students did ("none": not called);
\* ret is the returned value, <<v>>, or <<>> for None
NoCall == Result("init", TRUE, "", "none", <<>>)

\* a pop that removes nothing: the rollback forgotten
pop_keep(l) == l

\* list.pop(): drop the last element
pop(l) == SubSeq(l, 1, Len(l) - 1)

\* ---------------------------------------------- StudentManager (basic)
\* get_next_student_id over a list
NextStudentId(studs) ==
    IF studs = <<>> THEN STU \o <<"0", "0", "1">>
    ELSE LET numbers == {IntValue(Slice(studs[i].student_id, 3)) :
                            i \in {j \in 1..Len(studs) :
                                      IsIntLiteral(Slice(studs[j].student_id, 3))}}
             next_num == IF numbers # {} THEN Max(numbers) + 1 ELSE 1
         IN STU \o Pad3(Digits(next_num))

\* the constructor: load_students from the data file
LoadedStudents(f, t) ==
    IF f.state = "valid"
    THEN [i \in 1..Len(f.data) |-> from_dict(f.data[i], t)]
    ELSE <<>>

load_students ==
    /\ variant = "basic"
    /\ students' = LoadedStudents(file, now)
    /\ UNCHANGED <<file, faults>>
    /\ last' = Result("load", TRUE, "", "none", <<>>)
    /\ held' = HeldAfter(students')
    /\ UNCHANGED <<input, variant, cache_stats, cache_time, now>>

\* add_student(student), whoever calls it
Add(student) ==
    /\ variant = "basic"
    /\ IF Has(students, student.student_id)
       THEN /\ students' = students
            /\ file' = file
            /\ faults' = faults
            /\ last' = Result("add", FALSE,
                              "Student ID already exists", "none", <<>>)
       ELSE /\ Len(students) < MaxStudents
            /\ \E outcome \in Outcomes :
                 LET appended == Append(students, student)
                 IN /\ file' = FileAfterSave(appended, outcome)
                    /\ faults' = Spent(outcome)
                    /\ IF outcome = "ok"
                       THEN /\ students' = appended
                            /\ last' = Result("add", TRUE,
                                              "Student added successfully", outcome, <<>>)
                       ELSE /\ students' = pop(appended)
                            /\ last' = Result("add", FALSE,
                                              "Failed to save student data", outcome, <<>>)
    /\ held' = HeldAfter(students')
    /\ UNCHANGED <<variant, cache_stats, cache_time, now>>

add_student(student) == Add(student) /\ UNCHANGED input

update_student(student_id, kwargs) ==
    /\ variant = "basic"
    /\ IF Find(students, student_id) # 0
       THEN \E outcome \in Outcomes :
              LET i == Find(students, student_id)
                  set == ApplyKwargs(students[i], kwargs)
                  stamped == [set EXCEPT !.last_updated = now]
                  updated == [students EXCEPT ![i] = stamped]
              IN /\ faults' = Spent(outcome)
                 /\ students' = updated
                 /\ file' = FileAfterSave(updated, outcome)
                 /\ last' = IF outcome = "ok"
                            THEN Result("update", TRUE,
                                        "Student updated successfully", outcome, <<>>)
                            ELSE Result("update", FALSE,
                                        "Failed to save updated data", outcome, <<>>)
       ELSE /\ students' = students
            /\ file' = file
            /\ faults' = faults
            /\ last' = Result("update", FALSE,
                              "Student not found", "none", <<>>)
    /\ held' = HeldAfter(students')
    /\ UNCHANGED <<input, variant, cache_stats, cache_time, now>>

delete_student(student_id) ==
    /\ variant = "basic"
    /\ IF Find(students, student_id) # 0
       THEN \E outcome \in Outcomes :
              LET remaining == RemoveAt(students, Find(students, student_id))
              IN /\ faults' = Spent(outcome)
                 /\ students' = remaining
                 /\ file' = FileAfterSave(remaining, outcome)
                 /\ last' = IF outcome = "ok"
                            THEN Result("delete", TRUE,
                                        "Student deleted successfully", outcome, <<>>)
                            ELSE Result("delete", FALSE,
                                        "Failed to save after deletion", outcome, <<>>)
       ELSE /\ students' = students
            /\ file' = file
            /\ faults' = faults
            /\ last' = Result("delete", FALSE,
                              "Student not found", "none", <<>>)
    /\ held' = held
    /\ UNCHANGED <<input, variant, cache_stats, cache_time, now>>

bulk_delete_students(student_ids) ==
    /\ variant = "basic"
    /\ \E outcome \in Outcomes :
         LET initial_count == Len(students)
             remaining == Without(students, student_ids)
             deleted_count == initial_count - Len(remaining)
         IN /\ faults' = Spent(outcome)
            /\ students' = remaining
            /\ file' = FileAfterSave(remaining, outcome)
            /\ last' = IF outcome = "ok"
                       THEN Result("bulk_delete", TRUE,
                                   "Successfully deleted", outcome, <<deleted_count>>)
                       ELSE Result("bulk_delete", FALSE,
                                   "Failed to save after bulk deletion", outcome, <<>>)
    /\ held' = held
    /\ UNCHANGED <<input, variant, cache_stats, cache_time, now>>

get_student(student_id) ==
    /\ variant = "basic"
    /\ last' = Result("get", Has(students, student_id), "", "none",
                      GetStudent(students, student_id))
    /\ UNCHANGED <<input, variant, students, file, cache_stats, cache_time, now, held, faults>>

get_next_student_id ==
    /\ variant = "basic"
    /\ last' = Result("next_id", TRUE, "", "none", <<NextStudentId(students)>>)
    /\ UNCHANGED <<input, variant, students, file, cache_stats, cache_time, now, held, faults>>

\* ------------------------------------- AdvancedStudentManager (adv)
\* ages of the sample records ST001..ST010, in order
SampleAges == <<20, 22, 21, 19, 23, 20, 22, 21, 24, 19>>

\* load_sample_data, cut to its first SampleSize records
SampleStudents(t) ==
    [i \in 1..SampleSize |-> Student(FormatId(ST, i), SampleAges[i], t)]

CACHE_TTL == 30

EmptyDict == [k \in {} |-> 0]

\* python truth of an optional dict / an optional number (<<>> is None)
TruthyDict(opt) == opt # <<>> /\ DOMAIN opt[1] # {}

TruthyNum(opt) == opt # <<>> /\ opt[1] # 0

\* the result get_statistics computes (the part the store operations decide)
ComputeStats(studs) ==
    IF studs = <<>> THEN EmptyDict
    ELSE [total_students |-> Len(studs)]

\* get_next_student_id: <<id>>, or <<>> when int() raises ValueError
AdvNextStudentId(studs) ==
    IF studs = <<>> THEN <<ST \o <<"0", "0", "1">>>>
    ELSE IF \E i \in 1..Len(studs) : ~IsIntLiteral(Slice(studs[i].student_id, 2))
         THEN <<>>
         ELSE LET max_id == Max({IntValue(Slice(studs[i].student_id, 2)) :
                                    i \in 1..Len(studs)})
              IN <<ST \o Pad3(Digits(max_id + 1))>>

clear_cache ==
    /\ variant = "adv"
    /\ cache_stats' = <<>>
    /\ cache_time' = <<>>
    /\ last' = Result("clear_cache", TRUE, "", "none", <<>>)
    /\ UNCHANGED <<input, variant, students, file, now, held, faults>>

\* an add that leaves the statistics cache as it is
Adv_add_student_keep(student) ==
    /\ variant = "adv"
    /\ Len(students) < MaxStudents
    /\ students' = Append(students, student)
    /\ UNCHANGED <<cache_stats, cache_time>>
    /\ last' = Result("add", TRUE, "Student added successfully", "none", <<>>)
    /\ held' = HeldAfter(students')
    /\ UNCHANGED <<input, variant, file, now, faults>>

\* add_student(student), whoever calls it
Adv_Add(student) ==
    /\ variant = "adv"
    /\ Len(students) < MaxStudents
    /\ students' = Append(students, student)
    /\ cache_stats' = <<>>
    /\ cache_time' = <<>>
    /\ last' = Result("add", TRUE, "Student added successfully", "none", <<>>)
    /\ held' = HeldAfter(students')
    /\ UNCHANGED <<variant, file, now, faults>>

Adv_add_student(student) == Adv_Add(student) /\ UNCHANGED input

Adv_update_student(student_id, kwargs) ==
    /\ variant = "adv"
    /\ IF GetStudent(students, student_id) = <<>>
       THEN /\ last' = Result("update", FALSE,
                              "Student not found", "none", <<>>)
            /\ UNCHANGED <<students, cache_stats, cache_time>>
       ELSE LET i == FirstIndex(students, student_id)
                set == ApplyKwargs(students[i], kwargs)
                stamped == [set EXCEPT !.last_updated = now]
            IN /\ students' = [students EXCEPT ![i] = stamped]
               /\ cache_stats' = <<>>
               /\ cache_time' = <<>>
               /\ last' = Result("update", TRUE,
                                 "Student updated successfully", "none", <<>>)
    /\ held' = HeldAfter(students')
    /\ UNCHANGED <<input, variant, file, now, faults>>

Adv_delete_student(student_id) ==
    /\ variant = "adv"
    /\ IF GetStudent(students, student_id) = <<>>
       THEN /\ last' = Result("delete", FALSE,
                              "Student not found", "none", <<>>)
            /\ UNCHANGED <<students, cache_stats, cache_time>>
       ELSE /\ students' = Without(students, {student_id})
            /\ cache_stats' = <<>>
            /\ cache_time' = <<>>
            /\ last' = Result("delete", TRUE,
                              "Student deleted successfully", "none", <<>>)
    /\ UNCHANGED <<input, variant, file, now, held, faults>>

Adv_bulk_delete_students(student_ids) ==
    /\ variant = "adv"
    /\ LET initial_count == Len(students)
           remaining == Without(students, student_ids)
           deleted_count == initial_count - Len(remaining)
       IN /\ students' = remaining
          /\ last' = Result("bulk_delete", TRUE,
                            "Successfully deleted", "none", <<deleted_count>>)
    /\ cache_stats' = <<>>
    /\ cache_time' = <<>>
    /\ UNCHANGED <<input, variant, file, now, held, faults>>

Adv_get_student(student_id) ==
    /\ variant = "adv"
    /\ last' = Result("get", Has(students, student_id), "", "none",
                      GetStudent(students, student_id))
    /\ UNCHANGED <<input, variant, students, file, cache_stats, cache_time, now, held, faults>>

Adv_get_next_student_id ==
    /\ variant = "adv"
    /\ LET r == AdvNextStudentId(students)
       IN last' = IF r = <<>>
                  THEN Result("next_id", FALSE, "ValueError", "none", <<>>)
                  ELSE Result("next_id", TRUE, "", "none", r)
    /\ UNCHANGED <<input, variant, students, file, cache_stats, cache_time, now, held, faults>>

\* a get_statistics that still returns the cache when the 30 seconds are over
Adv_get_statistics_late ==
    /\ variant = "adv"
    /\ IF TruthyDict(cache_stats) /\ TruthyNum(cache_time)
            /\ now - cache_time[1] <= CACHE_TTL
       THEN /\ last' = Result("stats", TRUE, "cached", "none", cache_stats)
            /\ UNCHANGED <<cache_stats, cache_time>>
       ELSE LET stats == ComputeStats(students)
            IN /\ cache_stats' = <<stats>>
               /\ cache_time' = <<now>>
               /\ last' = Result("stats", TRUE, "computed", "none", <<stats>>)
    /\ UNCHANGED <<input, variant, students, file, now, held, faults>>

Adv_get_statistics ==
    /\ variant = "adv"
    /\ IF TruthyDict(cache_stats) /\ TruthyNum(cache_time)
            /\ now - cache_time[1] < CACHE_TTL
       THEN /\ last' = Result("stats", TRUE, "cached", "none", cache_stats)
            /\ UNCHANGED <<cache_stats, cache_time>>
       ELSE LET stats == ComputeStats(students)
            IN /\ cache_stats' = <<stats>>
               /\ cache_time' = <<now>>
               /\ last' = Result("stats", TRUE, "computed", "none", <<stats>>)
    /\ UNCHANGED <<input, variant, students, file, now, held, faults>>

\* ------------------------------------------------------------ the system
\* the seconds at which calls are made
Times == 1..2

\* time passes between calls
Tick ==
    /\ now + 1 \in Times
    /\ now' = now + 1
    /\ UNCHANGED <<input, variant, students, file, cache_stats, cache_time, last, held, faults>>

Init ==
    /\ variant \in {"basic", "adv"}
    /\ now = 1
    /\ students = IF variant = "basic" THEN <<>> ELSE SampleStudents(now)
    /\ file = [state |-> "absent", data |-> <<>>]
    /\ cache_stats = <<>>
    /\ cache_time = <<>>
    /\ last = NoCall
    /\ held = Max({0} \cup IdNums(students))
    /\ faults = 0
    /\ input = <<>>

Next ==
    \/ load_students
    \/ \E i \in CallerIds, a \in Ages : add_student(Student(i, a, now))
    \/ \E i \in CallerIds, kw \in KwargsSet : update_student(i, kw)
    \/ \E i \in CallerIds : delete_student(i)
    \/ \E ids \in SUBSET CallerIds : bulk_delete_students(ids)
    \/ \E i \in CallerIds : get_student(i)
    \/ get_next_student_id
    \/ clear_cache
    \/ \E i \in CallerIds, a \in Ages : Adv_add_student(Student(i, a, now))
    \/ \E i \in CallerIds, kw \in KwargsSet : Adv_update_student(i, kw)
    \/ \E i \in CallerIds : Adv_delete_student(i)
    \/ \E ids \in SUBSET CallerIds : Adv_bulk_delete_students(ids)
    \/ \E i \in CallerIds : Adv_get_student(i)
    \/ Adv_get_next_student_id
    \/ Adv_get_statistics

\* registering a student: the id is the one get_next_student_id returns
Registration(age) ==
    /\ held < MaxIssued
    /\ add_student(Student(NextStudentId(students), age, now))

\* the registration form, its data validated: the same with the richer store
show_registration(age) ==
    /\ held < MaxIssued
    /\ AdvNextStudentId(students) # <<>>
    /\ Adv_add_student(Student(AdvNextStudentId(students)[1], age, now))

\* all calls within one second: the clock stands still
Spec == Init /\ [][Next]_vars

NextClock ==
    \/ Next
    \/ Tick

\* a run in which save_students never fails: the fault budget starts out spent
InitNoFaults ==
    /\ variant \in {"basic", "adv"}
    /\ now = 1
    /\ students = IF variant = "basic" THEN <<>> ELSE SampleStudents(now)
    /\ file = [state |-> "absent", data |-> <<>>]
    /\ cache_stats = <<>>
    /\ cache_time = <<>>
    /\ last = NoCall
    /\ held = Max({0} \cup IdNums(students))
    /\ faults = MaxFaults
    /\ input = <<>>

\* the same calls with time passing between them, and no failing save
SpecClock == InitNoFaults /\ [][NextClock]_vars

NextRegistry ==
    \/ Registration(20)
    \/ \E i \in Ids(students) : delete_student(i)
    \/ get_next_student_id
    \/ show_registration(20)
    \/ \E i \in Ids(students) : Adv_delete_student(i)
    \/ Adv_get_next_student_id

\* only registrations, deletions of existing records and get_next_student_id
SpecRegistry == Init /\ [][NextRegistry]_vars

\* ------------------------------------------------------ python text
\* a str is a sequence of one-character strings
UpperChars ==
    <<"A", "B", "C", "D", "E", "F", "G", "H", "I", "J", "K", "L", "M",
      "N", "O", "P", "Q", "R", "S", "T", "U", "V", "W", "X", "Y", "Z">>

LowerChars ==
    <<"a", "b", "c", "d", "e", "f", "g", "h", "i", "j", "k", "l", "m",
      "n", "o", "p", "q", "r", "s", "t", "u", "v", "w", "x", "y", "z">>

IsUpper(c) == \E i \in 1..26 : UpperChars[i] = c

\* c.isalpha(), over ASCII
IsAlpha(c) == IsUpper(c) \/ \E i \in 1..26 : LowerChars[i] = c

\* c.isspace(), over the characters the model draws
IsSpace(c) == c = " "

LowerChar(c) ==
    IF IsUpper(c) THEN LowerChars[CHOOSE i \in 1..26 : UpperChars[i] = c] ELSE c

\* s.lower()
Lower(s) == [i \in 1..Len(s) |-> LowerChar(s[i])]

\* s.strip()
RECURSIVE Strip(_)
Strip(s) ==
    IF s = <<>> THEN s
    ELSE IF IsSpace(Head(s)) THEN Strip(Tail(s))
    ELSE IF IsSpace(s[Len(s)]) THEN Strip(SubSeq(s, 1, Len(s) - 1))
    ELSE s

\* q in s, for two strs
Contains(s, q) ==
    \E i \in 1..(Len(s) + 1) :
        /\ i + Len(q) - 1 <= Len(s)
        /\ SubSeq(s, i, i + Len(q) - 1) = q

\* str(n) of an int
Str(n) == IF n < 0 THEN <<"-">> \o Digits(0 - n) ELSE Digits(n)

\* int(s) and float(s) of a str, over the texts the model draws (a sign and
\* digits, blanks around them; no fraction, exponent, inf or nan): <<n>>, or
\* <<>> when ValueError is raised
ParseNumber(s) ==
    LET t == Strip(s)
        signed == t # <<>> /\ Head(t) \in {"-", "+"}
        body == IF signed THEN Tail(t) ELSE t
    IN IF IsIntLiteral(body)
       THEN <<IF signed /\ Head(t) = "-" THEN 0 - IntValue(body) ELSE IntValue(body)>>
       ELSE <<>>

\* dict.get(key, default)
Get(d, key, default) == IF key \in DOMAIN d THEN d[key] ELSE default

\* --------------------------------- StudentValidator (models/student.py)
GradeValues == <<"A", "B", "C", "D", "F">>

EmailLocalChar(c) == IsAlpha(c) \/ IsDigit(c) \/ c \in {".", "_", "%", "+", "-"}

EmailDomainChar(c) == IsAlpha(c) \/ IsDigit(c) \/ c \in {".", "-"}

\* re.match(r'^[a-zA-Z0-9._%+-]+@[a-zA-Z0-9.-]+\.[a-zA-Z]{2,}$', email), for
\* texts without a line break
validate_email(email) ==
    \E at \in 1..Len(email), dot \in 1..Len(email) :
        /\ at >= 2
        /\ email[at] = "@"
        /\ dot >= at + 2
        /\ email[dot] = "."
        /\ Len(email) - dot >= 2
        /\ \A k \in 1..(at - 1) : EmailLocalChar(email[k])
        /\ \A k \in (at + 1)..(dot - 1) : EmailDomainChar(email[k])
        /\ \A k \in (dot + 1)..Len(email) : IsAlpha(email[k])

PhoneChar(c) == IsDigit(c) \/ IsSpace(c) \/ c \in {"-", "(", ")"}

\* re.match(r'^[\+]?[0-9\s\-\(\)]{10,}$', phone) if phone else True
validate_phone(phone) ==
    IF phone = <<>> THEN TRUE
    ELSE LET rest == IF Head(phone) = "+" THEN Tail(phone) ELSE phone
         IN Len(rest) >= 10 /\ \A k \in 1..Len(rest) : PhoneChar(rest[k])

validate_name(name) ==
    /\ Len(Strip(name)) >= 2
    /\ \A k \in 1..Len(name) : IsAlpha(name[k]) \/ IsSpace(name[k])

validate_age(age) == 15 <= age /\ age <= 70

validate_grade(grade) == \E i \in 1..Len(GradeValues) : GradeValues[i] = grade

validate_performance(performance) == 0 <= performance /\ performance <= 100

\* one check of validate_student_data: the message it appends, if any
Message(failed, text) == IF failed THEN <<text>> ELSE <<>>

\* validate_student_data(student_data), student_data a row of csv.DictReader
\* (every value a str): the list of messages, in the order they are appended
ValidateStudentData(student_data) ==
    LET age == ParseNumber(Get(student_data, "age", <<"0">>))
        performance == ParseNumber(Get(student_data, "performance", <<"0">>))
        phone == Get(student_data, "phone", <<>>)
        course == Get(student_data, "course", <<>>)
    IN Message(~validate_name(Get(student_data, "name", <<>>)),
               "Full name must be at least 2 characters long and contain only letters and spaces")
       \o (IF age = <<>> THEN <<"Age must be a valid number">>
           ELSE Message(~validate_age(age[1]), "Age must be between 15 and 70 years"))
       \o Message(~validate_grade(Get(student_data, "grade", "")),
                  "Grade must be one of: A, B, C, D, F")
       \o Message(~validate_email(Get(student_data, "email", <<>>)),
                  "Please enter a valid email address format")
       \o (IF performance = <<>> THEN <<"Performance must be a valid number">>
           ELSE Message(~validate_performance(performance[1]),
                        "Performance percentage must be between 0 and 100"))
       \o Message(phone # <<>> /\ ~validate_phone(phone),
                  "Please enter a valid phone number format")
       \o Message(course = <<>> \/ Len(Strip(course)) < 2,
                  "Course name must be at least 2 characters long")

\* ------------------------------------------ StudentValidator (ui/app.py)
\* "not data.get(key)" for a str value and for a number value
NoText(data, key) == key \notin DOMAIN data \/ data[key] = <<>>

NoNumber(data, key) == key \notin DOMAIN data \/ data[key] = 0

\* validate_student_data(data), data a dict with numbers for age, performance
\* and attendance
AdvValidateStudentData(data) ==
    Message(NoText(data, "name") \/ Len(Strip(data.name)) < 2,
            "Name must be at least 2 characters long")
    \o Message(NoNumber(data, "age") \/ data.age < 15 \/ data.age > 70,
               "Age must be between 15 and 70")
    \o Message(NoText(data, "email") \/ ~Contains(data.email, <<"@">>),
               "Valid email address is required")
    \o Message(NoNumber(data, "performance") \/ data.performance < 0
                   \/ data.performance > 100,
               "Academic MentorDesk score must be between 0 and 100")
    \o Message(NoText(data, "course") \/ Len(Strip(data.course)) < 2,
               "Course must be at least 2 characters long")
    \o Message(~NoNumber(data, "attendance")
                   /\ (data.attendance < 0 \/ data.attendance > 100),
               "Attendance must be between 0 and 100")

\* ------------------------------------------------- validating a record
\* the data of a record as a form holds it: numbers for the numeric fields
FormData(name, age, grade, email, performance, phone, course, department, attendance) ==
    [name |-> name, age |-> age, grade |-> grade, email |-> email,
     performance |-> performance, phone |-> phone, course |-> course,
     department |-> department, attendance |-> attendance]

NumericColumns == {"age", "performance", "attendance"}

\* the same data as a row read from CSV: every number written by str()
AsRow(data) ==
    [k \in DOMAIN data |-> IF k \in NumericColumns THEN Str(data[k]) ELSE data[k]]

Names == {<<"A", "l">>, <<"A">>, <<"A", "1">>}

FormAges == {14, 15, 70, 71}

FormGrades == {"A", "E"}

Emails == {<<"a", "@", "b", ".", "c", "o">>, <<"a", "@", "b">>, <<"a", "b">>}

Performances == {0 - 1, 0, 100, 101}

Phones == {<<>>, <<"9", "8", "7", "6", "5", "4", "3", "2", "1", "0">>, <<"1", "2">>}

Courses == {<<"C", "S">>, <<"C">>}

Attendances == {0, 100, 101}

General == <<"G", "e", "n", "e", "r", "a", "l">>

Forms ==
    {FormData(n, a, g, e, p, ph, c, General, at) :
        n \in Names, a \in FormAges, g \in FormGrades, e \in Emails,
        p \in Performances, ph \in Phones, c \in Courses, at \in Attendances}

validate_student_data ==
    /\ variant = "basic"
    /\ input \in Forms
    /\ LET errors == ValidateStudentData(AsRow(input))
       IN last' = Result("validate", errors = <<>>, "", "none", <<errors>>)
    /\ UNCHANGED <<input, variant, students, file, cache_stats, cache_time, now, held, faults>>

Adv_validate_student_data ==
    /\ variant = "adv"
    /\ input \in Forms
    /\ LET errors == AdvValidateStudentData(input)
       IN last' = Result("validate", errors = <<>>, "", "none", <<errors>>)
    /\ UNCHANGED <<input, variant, students, file, cache_stats, cache_time, now, held, faults>>

\* a record is entered and validated
InitValidate ==
    /\ variant \in {"basic", "adv"}
    /\ now = 1
    /\ students = IF variant = "basic" THEN <<>> ELSE SampleStudents(now)
    /\ file = [state |-> "absent", data |-> <<>>]
    /\ cache_stats = <<>>
    /\ cache_time = <<>>
    /\ last = NoCall
    /\ held = Max({0} \cup IdNums(students))
    /\ faults = 0
    /\ input \in Forms

NextValidate ==
    \/ validate_student_data
    \/ Adv_validate_student_data

SpecValidate == InitValidate /\ [][NextValidate]_vars

\* ------------------------------------------------ the full record
\* The query and statistics engines read the attributes the store operations
\* only carry along.  For them a record holds every attribute: a Student built
\* from the data of a form (show_registration), with its id, its enrollment
\* date and the time of its construction.  Dates are day numbers: written
\* "%Y-%m-%d" they compare as their days do.
StudentRecord(student_id, data, enrollment_date, t) ==
    [student_id |-> student_id, name |-> data.name, age |-> data.age,
     grade |-> data.grade, email |-> data.email, performance |-> data.performance,
     phone |-> data.phone, course |-> data.course, department |-> data.department,
     enrollment_date |-> enrollment_date, attendance |-> data.attendance,
     last_updated |-> t]

SecondsPerDay == 86400

\* datetime.now() as a date
Today == now \div SecondsPerDay

\* sum(...) over a list of numbers
RECURSIVE SumOf(_)
SumOf(seq) == IF seq = <<>> THEN 0 ELSE Head(seq) + SumOf(Tail(seq))

\* round(total / n, 1) in tenths, for total >= 0: the nearest tenth, a tie
\* (the quotient is then exact in binary for the n the model reaches) to even
Round1(total, n) ==
    LET q == (10 * total) \div n
        r == (10 * total) % n
    IN IF 2 * r < n THEN q
       ELSE IF 2 * r > n THEN q + 1
       ELSE IF q % 2 = 0 THEN q ELSE q + 1

\* the quotient a / b of a float division, kept exact as the pair (a, b)
Quotient(a, b) == <<a, b>>

Performance(studs) == [i \in 1..Len(studs) |-> studs[i].performance]

Attendance(studs) == [i \in 1..Len(studs) |-> studs[i].attendance]

Le(a, b) == a <= b

\* a max that keeps the last of the records holding the largest key
LastMax(studs, keys) ==
    studs[CHOOSE i \in 1..Len(studs) :
              /\ \A j \in 1..Len(studs) : keys[j] <= keys[i]
              /\ \A j \in (i + 1)..Len(studs) : keys[j] < keys[i]]

\* max(studs, key=...): the first record holding the largest key
FirstMax(studs, keys) ==
    studs[CHOOSE i \in 1..Len(studs) :
              /\ \A j \in 1..Len(studs) : keys[j] <= keys[i]
              /\ \A j \in 1..(i - 1) : keys[j] < keys[i]]

\* {key: number of records with that key} for the keys in the given set, from
\* the list of the records' keys
Tally(record_keys, keys) ==
    [k \in keys |-> Cardinality({i \in 1..Len(record_keys) : record_keys[i] = k})]

\* the values of an Enum
Values(enum) == {enum[i] : i \in 1..Len(enum)}

\* ------------------------------------------- StudentManager: queries
PerformanceStatus == <<"Excellent", "Good", "Average", "Needs Improvement">>

\* the classification with the Average bucket merged into Needs Improvement
calculate_status_coarse(s) ==
    IF s.performance >= 90 THEN PerformanceStatus[1]
    ELSE IF s.performance >= 75 THEN PerformanceStatus[2]
    ELSE PerformanceStatus[4]

calculate_status(s) ==
    IF s.performance >= 90 THEN PerformanceStatus[1]
    ELSE IF s.performance >= 75 THEN PerformanceStatus[2]
    ELSE IF s.performance >= 60 THEN PerformanceStatus[3]
    ELSE PerformanceStatus[4]

SearchStudents(studs, query) ==
    LET q == Lower(query)
        Hit(s) == \/ Contains(Lower(s.name), q)
                  \/ Contains(Lower(s.email), q)
                  \/ Contains(Lower(s.course), q)
                  \/ Contains(Lower(s.department), q)
                  \/ Contains(s.phone, q)
    IN SelectSeq(studs, Hit)

FilterByStatus(studs, status) ==
    LET Hit(s) == calculate_status(s) = status
    IN SelectSeq(studs, Hit)

FilterRecentlyAdded(studs, days) ==
    LET cutoff_date == Today - days
        Hit(s) == s.enrollment_date >= cutoff_date
    IN SelectSeq(studs, Hit)

\* a read: what it returns, the store left alone
Read(op, value) ==
    /\ last' = Result(op, TRUE, "", "none", <<value>>)
    /\ UNCHANGED <<variant, students, file, cache_stats, cache_time, now, held, faults>>

get_all_students ==
    /\ variant = "basic"
    /\ Read("get_all", students)
    /\ UNCHANGED input

\* a search that takes the records it returns out of the list
search_students_take ==
    /\ variant = "basic"
    /\ last' = Result("search", TRUE, "", "none", <<SearchStudents(students, input)>>)
    /\ students' = SelectSeq(students, LAMBDA s : SearchStudents(<<s>>, input) = <<>>)
    /\ UNCHANGED <<input, variant, file, cache_stats, cache_time, now, held, faults>>

search_students ==
    /\ variant = "basic"
    /\ Read("search", SearchStudents(students, input))
    /\ UNCHANGED input

filter_by_grade(grade) ==
    /\ variant = "basic"
    /\ Read("filter", SelectSeq(students, LAMBDA s : s.grade = grade))
    /\ UNCHANGED input

filter_by_age_range(min_age, max_age) ==
    /\ variant = "basic"
    /\ Read("filter", SelectSeq(students, LAMBDA s : min_age <= s.age /\ s.age <= max_age))
    /\ UNCHANGED input

filter_by_performance(min_performance, max_performance) ==
    /\ variant = "basic"
    /\ Read("filter", SelectSeq(students, LAMBDA s : /\ min_performance <= s.performance
                                                     /\ s.performance <= max_performance))
    /\ UNCHANGED input

filter_by_status(status) ==
    /\ variant = "basic"
    /\ Read("filter", FilterByStatus(students, status))
    /\ UNCHANGED input

filter_by_course(course) ==
    /\ variant = "basic"
    /\ Read("filter", SelectSeq(students,
                                LAMBDA s : Contains(Lower(s.course), Lower(course))))
    /\ UNCHANGED input

filter_by_department(department) ==
    /\ variant = "basic"
    /\ Read("filter", SelectSeq(students,
                                LAMBDA s : Contains(Lower(s.department), Lower(department))))
    /\ UNCHANGED input

filter_recently_added(days) ==
    /\ variant = "basic"
    /\ Read("filter", FilterRecentlyAdded(students, days))
    /\ UNCHANGED input

\* the "or 'Undeclared'" of the course and department distributions
Undeclared == <<"U", "n", "d", "e", "c", "l", "a", "r", "e", "d">>

OrUndeclared(text) == IF text = <<>> THEN Undeclared ELSE text

\* how many days back get_statistics looks for recent students
TREND_DAYS == 30

\* get_statistics over a list
Statistics(studs) ==
    IF studs = <<>> THEN EmptyDict
    ELSE LET total_students == Len(studs)
             total_performance == SumOf(Performance(studs))
             recent_students == FilterRecentlyAdded(studs, TREND_DAYS)
             recent_total == SumOf(Performance(recent_students))
             \* recent_avg > avg_performance, both quotients of non-negative sums
             above == recent_total * total_students > total_performance * Len(recent_students)
             below == recent_total * total_students < total_performance * Len(recent_students)
             grades == [i \in 1..Len(studs) |-> studs[i].grade]
             courses == [i \in 1..Len(studs) |-> OrUndeclared(studs[i].course)]
             departments == [i \in 1..Len(studs) |-> OrUndeclared(studs[i].department)]
         IN [total_students |-> total_students,
             average_age |-> Round1(SumOf([i \in 1..Len(studs) |-> studs[i].age]),
                                    total_students),
             average_performance |-> Round1(total_performance, total_students),
             grade_distribution |-> Tally(grades, Values(GradeValues)),
             status_distribution |->
                 [status \in Values(PerformanceStatus)
                     |-> Len(FilterByStatus(studs, status))],
             course_distribution |-> Tally(courses, {courses[i] : i \in 1..Len(studs)}),
             department_distribution |->
                 Tally(departments, {departments[i] : i \in 1..Len(studs)}),
             performance_trend |->
                 IF recent_students = <<>> THEN <<>>
                 ELSE IF above THEN <<"improving">>
                 ELSE IF below THEN <<"declining">>
                 ELSE <<"stable">>,
             top_performer |-> FirstMax(studs, Performance(studs)),
             recent_additions |-> Len(recent_students)]

get_statistics ==
    /\ variant = "basic"
    /\ Read("stats", Statistics(students))
    /\ UNCHANGED input

\* get_performance_analysis over a list
PerformanceAnalysis(studs) ==
    IF studs = <<>> THEN EmptyDict
    ELSE LET performances == Performance(studs)
             Passed(s) == s.performance >= 60
         IN [max_performance |-> Max({performances[i] : i \in 1..Len(studs)}),
             min_performance |-> 0 - Max({0 - performances[i] : i \in 1..Len(studs)}),
             median_performance |-> SortSeq(performances, Le)[(Len(studs) \div 2) + 1],
             \* (passed / len) * 100
             pass_rate |-> Quotient(Len(SelectSeq(studs, Passed)) * 100, Len(studs))]

get_performance_analysis ==
    /\ variant = "basic"
    /\ Read("analysis", PerformanceAnalysis(students))
    /\ UNCHANGED input

\* ------------------------------------ AdvancedStudentManager: queries
AdvPerformanceStatus == <<" Excellent", " Good", " Average", " Needs Improvement">>

AttendanceStatus == <<" Excellent", " Good", " Average", " Poor">>

Adv_calculate_status(s) ==
    IF s.performance >= 90 THEN AdvPerformanceStatus[1]
    ELSE IF s.performance >= 75 THEN AdvPerformanceStatus[2]
    ELSE IF s.performance >= 60 THEN AdvPerformanceStatus[3]
    ELSE AdvPerformanceStatus[4]

calculate_attendance_status(s) ==
    IF s.attendance >= 95 THEN AttendanceStatus[1]
    ELSE IF s.attendance >= 85 THEN AttendanceStatus[2]
    ELSE IF s.attendance >= 75 THEN AttendanceStatus[3]
    ELSE AttendanceStatus[4]

AdvSearchStudents(studs, query) ==
    IF query = <<>> THEN studs
    ELSE LET q == Lower(query)
             Hit(s) == \/ Contains(Lower(s.name), q)
                       \/ Contains(Lower(s.email), q)
                       \/ Contains(Lower(s.course), q)
                       \/ Contains(Lower(s.department), q)
                       \/ Contains(Lower(s.phone), q)
                       \/ Contains(Lower(s.student_id), q)
         IN SelectSeq(studs, Hit)

Adv_get_all_students ==
    /\ variant = "adv"
    /\ Read("get_all", students)
    /\ UNCHANGED input

Adv_search_students ==
    /\ variant = "adv"
    /\ Read("search", AdvSearchStudents(students, input))
    /\ UNCHANGED input

\* the statistics get_statistics computes when it does not answer from the cache
AdvStatistics(studs) ==
    IF studs = <<>> THEN EmptyDict
    ELSE LET total_students == Len(studs)
             performances == Performance(studs)
             statuses == [i \in 1..Len(studs) |-> Adv_calculate_status(studs[i])]
             grades == [i \in 1..Len(studs) |-> studs[i].grade]
             attendances == [i \in 1..Len(studs) |-> calculate_attendance_status(studs[i])]
             courses == [i \in 1..Len(studs) |-> studs[i].course]
             departments == [i \in 1..Len(studs) |-> studs[i].department]
             \* the keys a distribution starts with and those the loop adds
             Keys(enum, record_keys) ==
                 Values(enum) \cup {record_keys[i] : i \in 1..Len(studs)}
         IN [total_students |-> total_students,
             average_performance |-> Round1(SumOf(performances), total_students),
             average_age |-> Round1(SumOf([i \in 1..Len(studs) |-> studs[i].age]),
                                    total_students),
             average_attendance |-> Round1(SumOf(Attendance(studs)), total_students),
             status_distribution |-> Tally(statuses, Keys(AdvPerformanceStatus, statuses)),
             grade_distribution |-> Tally(grades, Keys(GradeValues, grades)),
             attendance_distribution |->
                 Tally(attendances, Keys(AttendanceStatus, attendances)),
             course_distribution |-> Tally(courses, {courses[i] : i \in 1..Len(studs)}),
             department_distribution |->
                 Tally(departments, {departments[i] : i \in 1..Len(studs)}),
             performance_trend |->
                 IF Len(performances) >= 2 /\ performances[Len(performances)] > performances[1]
                 THEN "Improving"
                 ELSE IF Len(performances) >= 2
                         /\ performances[Len(performances)] < performances[1]
                 THEN "Declining"
                 ELSE "Stable",
             top_performer |-> FirstMax(studs, performances).name,
             most_attended |-> FirstMax(studs, Attendance(studs)).name]

\* get_statistics over full records
Adv_get_statistics_report ==
    /\ variant = "adv"
    /\ IF TruthyDict(cache_stats) /\ TruthyNum(cache_time)
            /\ now - cache_time[1] < CACHE_TTL
       THEN /\ last' = Result("stats", TRUE, "cached", "none", cache_stats)
            /\ UNCHANGED <<cache_stats, cache_time>>
       ELSE LET stats == AdvStatistics(students)
            IN /\ cache_stats' = <<stats>>
               /\ cache_time' = <<now>>
               /\ last' = Result("stats", TRUE, "computed", "none", <<stats>>)
    /\ UNCHANGED <<input, variant, students, file, now, held, faults>>

\* np.median: the middle value, or the mean of the two middle values
Median(values) ==
    LET sorted == SortSeq(values, Le)
        n == Len(values)
    IN IF n % 2 = 1 THEN Quotient(sorted[(n \div 2) + 1], 1)
       ELSE Quotient(sorted[n \div 2] + sorted[(n \div 2) + 1], 2)

\* get_performance_analysis over a list (without avg_attendance and the
\* correlation coefficient, which no operation of the model reads)
AdvPerformanceAnalysis(studs) ==
    IF studs = <<>> THEN EmptyDict
    ELSE LET performances == Performance(studs)
             Passed(s) == s.performance >= 60
             Excellent(s) == s.performance >= 90
         IN [max_performance |-> Max({performances[i] : i \in 1..Len(studs)}),
             min_performance |-> 0 - Max({0 - performances[i] : i \in 1..Len(studs)}),
             median_performance |-> Median(performances),
             pass_rate |-> Quotient(Len(SelectSeq(studs, Passed)) * 100, Len(studs)),
             excellence_rate |-> Quotient(Len(SelectSeq(studs, Excellent)) * 100, Len(studs))]

Adv_get_performance_analysis ==
    /\ variant = "adv"
    /\ Read("analysis", AdvPerformanceAnalysis(students))
    /\ UNCHANGED input

\* --------------------------------------------- queries over a store
\* the people of the lists the queries run on
Al == FormData(<<"A", "l">>, 20, "A", <<"a", "@", "b", ".", "c", "o">>, 92,
               <<"9", "8", "7", "6", "5", "4", "3", "2", "1", "0">>,
               <<"C", "S">>, General, 96)

Bo == FormData(<<"B", "o">>, 22, "E", <<"b", "@", "b", ".", "c", "o">>, 65,
               <<>>, <<"A", "I">>, <<>>, 50)

Cy == FormData(<<"C", "y">>, 19, "F", <<"c", "@", "b", ".", "c", "o">>, 40,
               <<"E", "X", "T", " ", "1", "2">>, <<>>, General, 100)

\* the same performance as Al, the same attendance as Cy
Di == FormData(<<"D", "i">>, 21, "B", <<"d", "@", "b", ".", "c", "o">>, 92,
               <<>>, <<"C", "S">>, General, 100)

Cast == <<Al, Bo, Cy, Di>>

\* the days on which they enrolled: the first and the third within the last
\* TREND_DAYS days, the others before
EnrolledOn == <<35, 5, 35, 5>>

\* the lists of distinct records of the cast, record k under the k-th id
Rosters(prefix, t) ==
    LET Rec(k) == StudentRecord(FormatId(prefix, k), Cast[k], EnrolledOn[k], t)
        Orders == UNION {[1..n -> 1..Len(Cast)] : n \in 0..MaxStudents}
    IN {[i \in DOMAIN o |-> Rec(o[i])] :
           o \in {p \in Orders : \A i, j \in DOMAIN p : i # j => p[i] # p[j]}}

\* texts of the search box
Queries == {<<>>, <<"a">>, <<"S", "T">>, <<"A", "L">>, <<"e", "x", "t">>}

\* the day of the queries
QueryDay == 40

InitQuery ==
    /\ variant \in {"basic", "adv"}
    /\ now = QueryDay * SecondsPerDay
    /\ students \in Rosters(Prefix, now)
    /\ file = IF variant = "basic" /\ students # <<>>
              THEN [state |-> "valid", data |-> [i \in 1..Len(students) |-> students[i]]]
              ELSE [state |-> "absent", data |-> <<>>]
    /\ cache_stats = <<>>
    /\ cache_time = <<>>
    /\ last = NoCall
    /\ held = Max({0} \cup IdNums(students))
    /\ faults = 0
    /\ input \in Queries

NextQuery ==
    \/ \E i \in CallerIds : get_student(i)
    \/ get_all_students
    \/ search_students
    \/ \E g \in FormGrades : filter_by_grade(g)
    \/ \E lo \in {15, 20}, hi \in {20, 70} : filter_by_age_range(lo, hi)
    \/ \E lo \in {0, 60} : filter_by_performance(lo, 100)
    \/ \E k \in 1..Len(PerformanceStatus) : filter_by_status(PerformanceStatus[k])
    \/ \E c \in {<<"c">>, <<"a", "i">>} : filter_by_course(c)
    \/ \E d \in {<<"G", "E", "N">>} : filter_by_department(d)
    \/ \E days \in {7, TREND_DAYS} : filter_recently_added(days)
    \/ get_next_student_id
    \/ get_statistics
    \/ get_performance_analysis
    \/ \E i \in CallerIds : Adv_get_student(i)
    \/ Adv_get_all_students
    \/ Adv_search_students
    \/ Adv_get_next_student_id
    \/ Adv_get_statistics_report
    \/ Adv_get_performance_analysis

\* only queries, over every list of the cast
SpecQuery == InitQuery /\ [][NextQuery]_vars

\* ---------------------------------------------------------------- import
\* how many rows an imported file holds at most
MaxRows == 3

\* "Row {i}: {', '.join(validation_errors)}": the row number and the messages
RowError(i, messages) == <<i, messages>>

\* the keys Student.from_dict reads with data[...]: a row without one of them
\* raises KeyError
FromDictKeys == {"student_id", "name", "age", "grade", "email", "performance"}

\* the loop of StudentManager.import_from_csv over the rows from row k on; acc
\* holds self.students, imported_count, errors, and whether a row raised
RECURSIVE ImportRows(_, _, _, _)
ImportRows(acc, rows, k, t) ==
    IF k > Len(rows) \/ acc.raised THEN acc
    ELSE LET row == rows[k]
             i == k + 1
             validation_errors == ValidateStudentData(row)
         IN ImportRows(
                IF validation_errors # <<>>
                THEN [acc EXCEPT !.errors = Append(@, RowError(i, validation_errors))]
                ELSE IF ~(FromDictKeys \subseteq DOMAIN row)
                THEN [acc EXCEPT !.raised = TRUE]
                ELSE IF Has(acc.students, row.student_id) THEN acc
                ELSE [acc EXCEPT !.students = Append(@, from_dict(row, t)),
                                 !.imported_count = @ + 1],
                rows, k + 1, t)

\* import_from_csv(filename) once csv.DictReader has the rows of the file
ImportCsv(rows) ==
    /\ variant = "basic"
    /\ Len(students) + Len(rows) <= MaxStudents + MaxRows
    /\ LET acc == ImportRows([students |-> students, imported_count |-> 0,
                              errors |-> <<>>, raised |-> FALSE], rows, 1, now)
       IN IF acc.raised
          THEN /\ students' = acc.students
               /\ file' = file
               /\ faults' = faults
               /\ last' = Result("import", FALSE, "Error importing data", "none",
                                 <<[errors |-> <<>>]>>)
          ELSE \E outcome \in Outcomes :
                 /\ students' = acc.students
                 /\ file' = FileAfterSave(acc.students, outcome)
                 /\ faults' = Spent(outcome)
                 /\ last' = IF outcome = "ok"
                            THEN Result("import", TRUE, "Successfully imported", outcome,
                                        <<[imported_count |-> acc.imported_count,
                                           errors |-> acc.errors]>>)
                            ELSE Result("import", FALSE, "Failed to save imported data",
                                        outcome, <<[errors |-> acc.errors]>>)
    /\ held' = HeldAfter(students')
    /\ UNCHANGED <<input, variant, cache_stats, cache_time, now>>

\* import_from_csv(filename), the file read as the rows in input
import_from_csv == ImportCsv(input)

\* student_data of a row of the data frame: the columns read with their
\* defaults (int(), float() and str() of values pandas has already typed)
RowData(row) ==
    [name |-> Get(row, "name", <<>>), age |-> Get(row, "age", 18),
     grade |-> Get(row, "grade", "B"), email |-> Get(row, "email", <<>>),
     performance |-> Get(row, "performance", 75), phone |-> Get(row, "phone", <<>>),
     course |-> Get(row, "course", <<>>), department |-> Get(row, "department", General),
     attendance |-> Get(row, "attendance", 95)]

\* the loop of AdvancedStudentManager.import_from_csv over the rows from row k on
RECURSIVE AdvImportRows(_, _, _, _)
AdvImportRows(acc, rows, k, t) ==
    IF k > Len(rows) THEN acc
    ELSE LET student_data == RowData(rows[k])
             validation_errors == AdvValidateStudentData(student_data)
             student_id == AdvNextStudentId(acc.students)
         IN AdvImportRows(
                IF validation_errors # <<>>
                THEN [acc EXCEPT !.errors = Append(@, RowError(k, validation_errors))]
                ELSE IF student_id = <<>>
                THEN [acc EXCEPT !.errors = Append(@, RowError(k, <<"Error processing">>))]
                ELSE [acc EXCEPT !.students =
                                     Append(@, StudentRecord(student_id[1], student_data,
                                                             t \div SecondsPerDay, t)),
                                 !.imported_count = @ + 1],
                rows, k + 1, t)

\* import_from_csv(file_content) once pd.read_csv has the rows of the text
Adv_ImportCsv(rows) ==
    /\ variant = "adv"
    /\ Len(students) + Len(rows) <= MaxStudents + MaxRows
    /\ LET acc == AdvImportRows([students |-> students, imported_count |-> 0,
                                 errors |-> <<>>], rows, 1, now)
       IN /\ students' = acc.students
          /\ last' = Result("import", TRUE, "Successfully imported", "none",
                            <<[imported_count |-> acc.imported_count,
                               errors |-> acc.errors]>>)
    /\ cache_stats' = <<>>
    /\ cache_time' = <<>>
    /\ held' = HeldAfter(students')
    /\ UNCHANGED <<input, variant, file, now, faults>>

\* import_from_csv(file_content), the text parsed into the rows in input
Adv_import_from_csv == Adv_ImportCsv(input)

\* the rows of the imported files: a valid record and the same with age 12
GoodRow == FormData(<<"A", "l">>, 20, "A", <<"a", "@", "b", ".", "c", "o">>, 92,
                    <<>>, <<"C", "S">>, General, 96)

BadRow == FormData(<<"A", "l">>, 12, "A", <<"a", "@", "b", ".", "c", "o">>, 92,
                   <<>>, <<"C", "S">>, General, 96)

\* a row of csv.DictReader with a student_id column
WithId(data, id) ==
    [k \in DOMAIN data \cup {"student_id"} |->
        IF k = "student_id" THEN id ELSE AsRow(data)[k]]

RowIds == {FormatId(STU, n) : n \in 1..MaxRows}

\* a row of a file whose header lacks the columns keys
Lacking(row, keys) == [k \in DOMAIN row \ keys |-> row[k]]

\* every id with a valid and an invalid record, and a row of a file without
\* the performance column
BasicRows ==
    {WithId(d, i) : d \in {GoodRow, BadRow}, i \in RowIds}
        \cup {Lacking(WithId(GoodRow, FormatId(STU, 1)), {"performance"})}

\* a row of the data frame with one more column
Column(row, key, value) ==
    [k \in DOMAIN row \cup {key} |-> IF k = key THEN value ELSE row[k]]

\* an exported row carries the student_id column
\* and rows of files without the age column, without the optional columns
AdvRows ==
    {GoodRow, BadRow, Column(GoodRow, "student_id", FormatId(ST, 1)),
     Lacking(GoodRow, {"age"}), Lacking(GoodRow, {"attendance", "department"})}

Batches(rows) == UNION {[1..n -> rows] : n \in 0..MaxRows}

InitImport ==
    /\ variant \in {"basic", "adv"}
    /\ now = 1
    /\ students = IF variant = "basic" THEN <<>> ELSE SampleStudents(now)
    /\ file = [state |-> "absent", data |-> <<>>]
    /\ cache_stats = <<>>
    /\ cache_time = <<>>
    /\ last = NoCall
    /\ held = Max({0} \cup IdNums(students))
    /\ faults = 0
    /\ input \in IF variant = "basic" THEN Batches(BasicRows) ELSE Batches(AdvRows)

NextImport ==
    \/ import_from_csv
    \/ Adv_import_from_csv

\* files of up to MaxRows rows imported into a new store
SpecImport == InitImport /\ [][NextImport]_vars

\* ------------------------------------------------ the statistics cache
InitCache ==
    /\ variant = "adv"
    /\ now = 1
    /\ students = SampleStudents(now)
    /\ file = [state |-> "absent", data |-> <<>>]
    /\ cache_stats = <<>>
    /\ cache_time = <<>>
    /\ last = NoCall
    /\ held = Max({0} \cup IdNums(students))
    /\ faults = 0
    /\ input \in {<<GoodRow>>, <<BadRow, GoodRow>>}

NextCache ==
    \/ \E i \in CallerIds, a \in Ages : Adv_add_student(Student(i, a, now))
    \/ \E i \in CallerIds, kw \in KwargsSet : Adv_update_student(i, kw)
    \/ \E i \in CallerIds : Adv_delete_student(i)
    \/ \E ids \in SUBSET CallerIds : Adv_bulk_delete_students(ids)
    \/ (Len(students) + Len(input) <= MaxStudents /\ Adv_import_from_csv)
    \/ Adv_get_statistics
    \/ Tick

\* the richer store: its mutations, get_statistics, and time passing
SpecCache == InitCache /\ [][NextCache]_vars

\* ------------------------------------------- the age of the cache
\* the last second at which a call is made
Horizon == 61

\* the waits between calls: one second less than the life of the cache, and
\* the whole of it
Waits == {CACHE_TTL - 1, CACHE_TTL}

\* time.time() moves on by d seconds between two calls
Elapse(d) ==
    /\ now + d <= Horizon
    /\ now' = now + d
    /\ UNCHANGED <<input, variant, students, file, cache_stats, cache_time, last,
                   held, faults>>

InitTTL ==
    /\ variant = "adv"
    /\ now = 1
    /\ students = SampleStudents(now)
    /\ file = [state |-> "absent", data |-> <<>>]
    /\ cache_stats = <<>>
    /\ cache_time = <<>>
    /\ last = NoCall
    /\ held = Max({0} \cup IdNums(students))
    /\ faults = 0
    /\ input = <<>>

NextTTL ==
    \/ Adv_get_statistics
    \/ \E i \in CallerIds, a \in Ages : Adv_add_student(Student(i, a, now))
    \/ \E i \in CallerIds : Adv_delete_student(i)
    \/ \E d \in Waits : Elapse(d)

\* get_statistics called at once, 29 and 30 seconds after the result was cached
SpecTTL == InitTTL /\ [][NextTTL]_vars

\* ------------------------------------------------ ids of any form
\* an id without a numeric suffix
Malformed == Prefix \o <<"X">>

\* records added under the ids of the callers and under the malformed id
NextIds ==
    \/ \E i \in CallerIds \cup {Malformed} : add_student(Student(i, 20, now))
    \/ \E i \in CallerIds \cup {Malformed} : Adv_add_student(Student(i, 20, now))
    \/ get_next_student_id
    \/ Adv_get_next_student_id

\* stores that come to hold a malformed id, and get_next_student_id on them
SpecIds == Init /\ [][NextIds]_vars

\* ------------------------------------------- two callers registering
\* the callers that share the store
Callers == 1..2

\* the age each caller enters
RegistrantAge(c) == 20 + c

\* where a caller is in the registration (input[c].pc): before
\* get_next_student_id ("next_id"), with the id it returned and before
\* add_student ("add"), after add_student ("done")
AtStart == [c \in Callers |-> [pc |-> "next_id", student_id |-> <<>>]]

\* student_id = self.manager.get_next_student_id()
take_id(c) ==
    /\ input[c].pc # "add"
    /\ LET r == IF variant = "basic" THEN <<NextStudentId(students)>>
                ELSE AdvNextStudentId(students)
       IN /\ r # <<>>
          /\ input' = [input EXCEPT ![c] = [pc |-> "add", student_id |-> r[1]]]
          /\ last' = Result("next_id", TRUE, "", "none", r)
    /\ UNCHANGED <<variant, students, file, cache_stats, cache_time, now, held, faults>>

\* self.manager.add_student(new_student), the record built with that id
register(c) ==
    /\ input[c].pc = "add"
    /\ LET new_student == Student(input[c].student_id, RegistrantAge(c), now)
       IN Add(new_student) \/ Adv_Add(new_student)
    /\ input' = [input EXCEPT ![c].pc = "done"]

\* no save fails; the richer store holds the first of its sample records
InitConcurrent ==
    /\ variant \in {"basic", "adv"}
    /\ now = 1
    /\ students = IF variant = "basic" THEN <<>>
                  ELSE SubSeq(SampleStudents(now), 1, 1)
    /\ file = [state |-> "absent", data |-> <<>>]
    /\ cache_stats = <<>>
    /\ cache_time = <<>>
    /\ last = NoCall
    /\ held = Max({0} \cup IdNums(students))
    /\ faults = MaxFaults
    /\ input = AtStart

NextConcurrent ==
    \/ \E c \in Callers : take_id(c)
    \/ \E c \in Callers : register(c)

\* the callers' steps in any order, no lock between them
SpecConcurrent == InitConcurrent /\ [][NextConcurrent]_vars

\* ------------------------------------------------------ export to CSV
\* the text of a CSV file: the column names of its header line (none when no
\* header line was written) and its data rows, every value as str() writes it
Csv(header, rows) == [header |-> header, rows |-> rows]

\* the keys of Student.to_dict, in order
ExportColumns ==
    <<"student_id", "name", "age", "grade", "email", "performance", "phone",
      "course", "department", "enrollment_date", "last_updated">>

\* the keys of the rows AdvancedStudentManager.export_to_csv builds, in order
AdvExportColumns ==
    <<"student_id", "name", "age", "grade", "email", "performance", "phone",
      "course", "department", "enrollment_date", "attendance", "last_updated">>

\* the columns that hold numbers in the records of the cast
NumberColumns == {"age", "performance", "attendance", "enrollment_date", "last_updated"}

\* the row written for a record: its values under the columns, numbers as text
WrittenRow(s, columns) ==
    [k \in {columns[i] : i \in DOMAIN columns} |->
        IF k \in NumberColumns THEN Str(s[k]) ELSE s[k]]

\* what StudentManager.export_to_csv writes: header and rows only
\* "if self.students"
ExportedCsv(studs) ==
    IF studs # <<>>
    THEN Csv(ExportColumns, [i \in DOMAIN studs |-> WrittenRow(studs[i], ExportColumns)])
    ELSE Csv(<<>>, <<>>)

\* pd.DataFrame(data).to_csv(index=False): a frame built from an empty list
\* has no columns, and its text is a line break alone
AdvExportedCsv(studs) ==
    IF studs # <<>>
    THEN Csv(AdvExportColumns,
             [i \in DOMAIN studs |-> WrittenRow(studs[i], AdvExportColumns)])
    ELSE Csv(<<>>, <<>>)

\* export_to_csv(filename): the file written is the returned value of the model
export_to_csv ==
    /\ variant = "basic"
    /\ \E outcome \in Outcomes :
          /\ faults' = Spent(outcome)
          /\ last' = IF outcome = "ok"
                     THEN Result("export", TRUE, "Data exported successfully", outcome,
                                 <<ExportedCsv(students)>>)
                     ELSE Result("export", FALSE, "Error exporting data", outcome, <<>>)
    /\ UNCHANGED <<students, file, held, input, variant, cache_stats, cache_time, now>>

Adv_export_to_csv ==
    /\ variant = "adv"
    /\ last' = Result("export", TRUE, "Data exported successfully", "none",
                      <<AdvExportedCsv(students)>>)
    /\ UNCHANGED <<students, file, held, faults, input, variant, cache_stats,
                   cache_time, now>>

\* csv.DictReader over a text: a dict of str per data row, none for an empty
\* text
DictReader(csv) == IF csv.header = <<>> THEN <<>> ELSE csv.rows

\* a cell as pd.read_csv types it and str(), int() or float() then reads it:
\* digits become a number, an empty cell becomes NaN, which str() writes "nan"
ReadValue(key, text) ==
    IF key = "grade" THEN text
    ELSE IF key \in NumberColumns THEN ParseNumber(text)[1]
    ELSE IF text = <<>> THEN <<"n", "a", "n">>
    ELSE text

\* pd.read_csv over a text: <<rows>>, or <<>> when it raises EmptyDataError
\* ("No columns to parse from file")
read_csv(csv) ==
    IF csv.header = <<>> THEN <<>>
    ELSE <<[i \in DOMAIN csv.rows |->
              [k \in DOMAIN csv.rows[i] |-> ReadValue(k, csv.rows[i][k])]]>>

\* import_from_csv(filename) of the file the last export wrote
import_exported_csv ==
    /\ last.op = "export"
    /\ last.ok
    /\ ImportCsv(DictReader(last.ret[1]))

\* import_from_csv(file_content) of the text the last export returned
Adv_import_exported_csv ==
    /\ variant = "adv"
    /\ last.op = "export"
    /\ last.ok
    /\ LET df == read_csv(last.ret[1])
       IN IF df = <<>>
          THEN /\ last' = Result("import", FALSE, "Import failed", "none",
                                 <<[errors |-> <<>>]>>)
               /\ UNCHANGED <<students, file, held, faults, input, variant,
                              cache_stats, cache_time, now>>
          ELSE Adv_ImportCsv(df[1])

InitExport ==
    /\ variant \in {"basic", "adv"}
    /\ now = QueryDay * SecondsPerDay
    /\ students \in Rosters(Prefix, now)
    /\ file = IF variant = "basic" /\ students # <<>>
              THEN [state |-> "valid", data |-> [i \in 1..Len(students) |-> students[i]]]
              ELSE [state |-> "absent", data |-> <<>>]
    /\ cache_stats = <<>>
    /\ cache_time = <<>>
    /\ last = NoCall
    /\ held = Max({0} \cup IdNums(students))
    /\ faults = 0
    /\ input = <<>>

NextExport ==
    \/ export_to_csv
    \/ Adv_export_to_csv
    \/ import_exported_csv
    \/ Adv_import_exported_csv

\* every list of the cast exported, and the export imported again
SpecExport == InitExport /\ [][NextExport]_vars

\* ---------------------------------------------------------------- claims
\* the calls of either store
AddInputs == {Student(i, a, now) : i \in CallerIds, a \in Ages}

AddCall(s) == add_student(s) \/ Adv_add_student(s)

UpdateCall(i, kw) == update_student(i, kw) \/ Adv_update_student(i, kw)

DeleteCall(i) == delete_student(i) \/ Adv_delete_student(i)

BulkCall(ids) == bulk_delete_students(ids) \/ Adv_bulk_delete_students(ids)

SaveFailed(r) == r.save \in {"open_failed", "write_failed"}

\* the fields the update form sends
UpdatableFields ==
    {"name", "age", "email", "phone", "course", "department", "grade",
     "performance", "attendance"}

HasUnknownField(kw) == \E k \in 1..Len(kw) : kw[k][1] \notin UpdatableFields

\* C1: no two records of the live list have the same student_id.
C1_UniqueIds ==
    \A i, j \in 1..Len(students) :
        i # j => students[i].student_id # students[j].student_id

\* C2: every id get_next_student_id returns has a numeric suffix greater than
\* that of every id a record of the store has ever had.
C2_NextIdAboveEveryHeldId ==
    (last.op = "next_id" /\ last.ok) => IdNum(last.ret[1]) > held

\* C3: add with an id already in the store returns the duplicate-id failure and
\* leaves the record list and the file as they were.
C3_AddDuplicateRejected ==
    [][\A s \in AddInputs :
          (AddCall(s) /\ Has(students, s.student_id))
              => /\ ~last'.ok
                 /\ last'.msg = "Student ID already exists"
                 /\ students' = students
                 /\ file' = file]_vars

\* C4: an add whose save fails returns failure and leaves the in-memory list
\* exactly as it was (same records, same order).
C4_AddRollback ==
    [][(last'.op = "add" /\ SaveFailed(last'))
          => (~last'.ok /\ students' = students)]_vars

C4_Witness ==
    /\ last.op = "add"
    /\ last.save = "write_failed"
    /\ ~last.ok
    /\ Len(students) = 1

\* C5: an update, delete or bulk delete whose save fails returns failure and
\* leaves the in-memory list as it was before the call.
C5_RollbackOnSaveFailure ==
    [][(last'.op \in {"update", "delete", "bulk_delete"} /\ SaveFailed(last'))
          => (~last'.ok /\ students' = students)]_vars

\* C6: after a successful add of a record whose id was not in the store, get of
\* that id returns a record with the same id and data; after a successful
\* delete of an id, get of that id returns None.
C6_AddGetDeleteGet ==
    [][/\ \A s \in AddInputs :
            (AddCall(s) /\ ~Has(students, s.student_id) /\ last'.ok)
                => /\ GetStudent(students', s.student_id) # <<>>
                   /\ GetStudent(students', s.student_id)[1].student_id = s.student_id
                   /\ GetStudent(students', s.student_id)[1].age = s.age
       /\ \A i \in CallerIds :
            (DeleteCall(i) /\ last'.ok) => GetStudent(students', i) = <<>>]_vars

\* C7: update and delete of an id that is not in the store return the not-found
\* failure, change no record and no position, and do not call save_students.
C7_NotFoundNoEffect ==
    [][\A i \in CallerIds :
          (/\ last'.op \in {"update", "delete"}
           /\ ~Has(students, i)
           /\ DeleteCall(i) \/ \E kw \in KwargsSet : UpdateCall(i, kw))
              => /\ ~last'.ok
                 /\ last'.msg = "Student not found"
                 /\ last'.save = "none"
                 /\ students' = students
                 /\ file' = file]_vars

C7_Witness ==
    /\ last.op \in {"update", "delete"}
    /\ last.msg = "Student not found"
    /\ now = 2
    /\ students # <<>>
    /\ students[1].last_updated = 1

\* C8: an update whose keyword arguments contain a name outside the updatable
\* fields is reported as a failure.
C8_UnknownFieldRejected ==
    [][\A i \in CallerIds, kw \in KwargsSet :
          (UpdateCall(i, kw) /\ HasUnknownField(kw)) => ~last'.ok]_vars

\* C9: no update changes the student_id of any record.
C9_IdImmutable ==
    [][\A i \in CallerIds, kw \in KwargsSet :
          UpdateCall(i, kw)
              => /\ Len(students') = Len(students)
                 /\ \A k \in 1..Len(students) :
                       students'[k].student_id = students[k].student_id]_vars

AgeRange == 15..70

\* C11: every record of the live list has its bounded attributes within their
\* ranges (age, which stands for them in the store, within 15..70), whatever
\* sequence of add, update and import calls built the list.
C11_FieldsInRange ==
    \A i \in 1..Len(students) : students[i].age \in AgeRange

\* the field rules of the data model, field by field
RuleViolations(d) ==
    {f \in {"name", "age", "grade", "email", "performance", "attendance", "phone", "course"} :
        CASE f = "name" -> ~validate_name(d.name)
          [] f = "age" -> d.age \notin AgeRange
          [] f = "grade" -> ~validate_grade(d.grade)
          [] f = "email" -> ~validate_email(d.email)
          [] f = "performance" -> d.performance \notin 0..100
          [] f = "attendance" -> d.attendance \notin 0..100
          [] f = "phone" -> ~validate_phone(d.phone)
          [] f = "course" -> Len(Strip(d.course)) < 2}

Range(seq) == {seq[i] : i \in 1..Len(seq)}

\* C12: the validator returns the empty list for every record that satisfies
\* all the field rules, the boundary values (age 15 and 70, performance and
\* attendance 0 and 100) included.
C12_ValidRecordNoErrors ==
    (last.op = "validate" /\ RuleViolations(input) = {}) => last.ret[1] = <<>>

\* C13: for a record that violates k of the eight field rules the validator
\* returns at least k distinct messages.
C13_MessagePerViolatedField ==
    last.op = "validate"
        => Cardinality(Range(last.ret[1])) >= Cardinality(RuleViolations(input))

\* the match the search is specified to make: the lower-cased query within one
\* of the lower-cased texts of the record, its id among them
Matches(s, query) ==
    \E text \in {s.name, s.email, s.course, s.department, s.phone, s.student_id} :
        Contains(Lower(text), Lower(query))

\* C14: a search returns exactly the records matching the query in name,
\* email, course, department, phone or id, compared without regard to case, in
\* store order (all of them for the empty query).
C14_SearchExact ==
    last.op = "search"
        => last.ret[1] = SelectSeq(students, LAMBDA s : Matches(s, input))

ReadOps == {"get", "get_all", "search", "filter", "next_id", "analysis"}

\* C15: get, get_all, search, the filters, get_next_student_id and
\* get_performance_analysis change neither the record list (no record, no
\* attribute, no position) nor the file.
C15_ReadsArePure ==
    [][last'.op \in ReadOps => (students' = students /\ file' = file)]_vars

C15_Witness ==
    /\ last.op = "search"
    /\ last.ret[1] # <<>>
    /\ Len(last.ret[1]) < Len(students)
    /\ file.state = "valid"
    /\ Len(file.data) = Len(students)

\* the sum of the counts of a distribution
RECURSIVE Total(_)
Total(distribution) ==
    IF DOMAIN distribution = {} THEN 0
    ELSE LET k == CHOOSE x \in DOMAIN distribution : TRUE
         IN distribution[k] + Total([x \in DOMAIN distribution \ {k} |-> distribution[x]])

StatusNames == IF variant = "basic" THEN PerformanceStatus ELSE AdvPerformanceStatus

\* C17: the statistics of a non-empty store hold a grade distribution with
\* exactly the keys A, B, C, D, F, a performance-bucket distribution with
\* exactly its four keys and an attendance-bucket distribution with exactly its
\* four keys, and the counts of each add up to the number of records.
C17_FixedDomainDistributions ==
    (last.op = "stats" /\ students # <<>>)
        => LET stats == last.ret[1]
           IN /\ DOMAIN stats.grade_distribution = Range(GradeValues)
              /\ Total(stats.grade_distribution) = Len(students)
              /\ DOMAIN stats.status_distribution = Range(StatusNames)
              /\ Total(stats.status_distribution) = Len(students)
              /\ "attendance_distribution" \in DOMAIN stats
              /\ DOMAIN stats.attendance_distribution = Range(AttendanceStatus)
              /\ Total(stats.attendance_distribution) = Len(students)

\* the trend the statistics report, as a word
ReportedTrend(stats) ==
    IF variant = "basic"
    THEN IF stats.performance_trend = <<>> THEN "" ELSE stats.performance_trend[1]
    ELSE stats.performance_trend

\* C18: the trend of the statistics of a non-empty store is one of improving,
\* declining and stable: improving when the mean performance of the records
\* enrolled within the last 30 days is above the mean of all, declining when
\* it is below, stable when the two are equal.
C18_TrendAgainstOverallMean ==
    (last.op = "stats" /\ students # <<>>)
        => LET recent == SelectSeq(students,
                                   LAMBDA s : s.enrollment_date >= Today - TREND_DAYS)
               n == Len(students)
               m == Len(recent)
               all == SumOf(Performance(students))
               new == SumOf(Performance(recent))
               trend == ReportedTrend(last.ret[1])
           IN /\ trend \in {"improving", "Improving", "declining", "Declining",
                            "stable", "Stable"}
              /\ m > 0 =>
                   /\ new * n > all * m => trend \in {"improving", "Improving"}
                   /\ new * n < all * m => trend \in {"declining", "Declining"}
                   /\ new * n = all * m => trend \in {"stable", "Stable"}

\* the bucket of a performance: 1 Excellent, 2 Good, 3 Average, 4 Needs
\* Improvement
Bucket(performance) ==
    IF performance >= 90 THEN 1
    ELSE IF performance >= 75 THEN 2
    ELSE IF performance >= 60 THEN 3
    ELSE 4

\* C19: the performance-bucket distribution counts every record in exactly one
\* bucket, by the thresholds >= 90, >= 75, >= 60 and below (performances 92, 65
\* and 40: Excellent 1, Good 0, Average 1, Needs Improvement 1), and the pass
\* rate is the share of records with performance >= 60, times 100 (there 2/3
\* times 100).
C19_BucketsAndPassRate ==
    /\ (last.op = "stats" /\ students # <<>>)
          => \A k \in 1..4 :
                last.ret[1].status_distribution[StatusNames[k]]
                    = Cardinality({i \in 1..Len(students) :
                                      Bucket(students[i].performance) = k})
    /\ (last.op = "analysis" /\ students # <<>>)
          => LET passed == {i \in 1..Len(students) : students[i].performance >= 60}
             IN last.ret[1].pass_rate = <<Cardinality(passed) * 100, Len(students)>>

C19_Witness ==
    /\ last.op = "stats"
    /\ Performance(students) = <<92, 65, 40>>
    /\ \A k \in 1..4 :
          last.ret[1].status_distribution[StatusNames[k]] = <<1, 0, 1, 1>>[k]

Mutations == {"add", "update", "delete", "bulk_delete", "import"}

\* C16: every successful add, update, delete, bulk delete and import leaves the
\* statistics cache empty, and so every get_statistics, however soon after a
\* mutation it is called, returns the statistics of the list as it then is.
C16_CacheInvalidatedByMutation ==
    [][/\ (last'.op \in Mutations /\ last'.ok)
             => (cache_stats' = <<>> /\ cache_time' = <<>>)
       /\ last'.op = "stats" => last'.ret[1] = ComputeStats(students)]_vars

C16_Witness ==
    /\ last.op = "stats"
    /\ last.msg = "computed"
    /\ now = 1
    /\ Len(students) > SampleSize
    /\ last.ret[1].total_students = Len(students)

\* the rows of a file that pass the validator of the store they are imported in
Passes(row) ==
    IF variant = "basic" THEN ValidateStudentData(row) = <<>>
    ELSE AdvValidateStudentData(RowData(row)) = <<>>

\* the rows carry ids that are new to the store and differ from each other
FreshIds(studs, rows) ==
    variant = "basic" =>
        /\ \A k \in 1..Len(rows) : ~Has(studs, rows[k].student_id)
        /\ \A j, k \in 1..Len(rows) : j # k => rows[j].student_id # rows[k].student_id

\* the numbers of the rows that fail, in order
RECURSIVE FailingRows(_, _)
FailingRows(rows, k) ==
    IF k > Len(rows) THEN <<>>
    ELSE (IF Passes(rows[k]) THEN <<>> ELSE <<k>>) \o FailingRows(rows, k + 1)

\* C20: an import that succeeds adds one record for every row that passes
\* validation, reports their number, and returns one error entry for every row
\* that fails, naming the number of that row among the rows of the file (the
\* second row of three is row 2) and holding its messages.
C20_ImportPartialSuccess ==
    [][(last'.op = "import" /\ last'.ok /\ FreshIds(students, input))
          => LET failing == FailingRows(input, 1)
                 result == last'.ret[1]
             IN /\ result.imported_count = Len(input) - Len(failing)
                /\ Len(students') = Len(students) + result.imported_count
                /\ SubSeq(students', 1, Len(students)) = students
                /\ Len(result.errors) = Len(failing)
                /\ \A j \in 1..Len(failing) :
                      /\ result.errors[j][1] = failing[j]
                      /\ result.errors[j][2] # <<>>]_vars

\* the numbers of the rows of a file that the loop accepts first: valid rows
\* with an id the store does not hold
Accepted(studs, rows) ==
    {k \in 1..Len(rows) :
        /\ "student_id" \in DOMAIN rows[k]
        /\ Passes(rows[k])
        /\ ~Has(studs, rows[k].student_id)}

\* C21: an import that fails after rows were validated and accepted returns
\* failure and leaves the list of records and the data file exactly as they
\* were before the call: no accepted row stays in the store.
C21_FailedImportAborted ==
    [][(last'.op = "import" /\ ~last'.ok /\ Accepted(students, input) # {})
          => /\ students' = students
             /\ file' = file]_vars

\* the ids of the valid rows of a file that the store does not hold yet
NewIds(studs, rows) ==
    {rows[k].student_id : k \in {j \in 1..Len(rows) : Passes(rows[j])}} \ Ids(studs)

\* C22: an import adds no record for a valid row whose id is held by a record
\* of the store or by a row accepted earlier in the batch: it adds one record
\* for every new id among the valid rows, the imported count is the number of
\* records added, and a store with one record per id stays so.
C22_ImportSkipsHeldIds ==
    [][(/\ last'.op = "import"
        /\ last'.ok
        /\ \A k \in 1..Len(input) : "student_id" \in DOMAIN input[k])
          => /\ Len(students') = Len(students) + Cardinality(NewIds(students, input))
             /\ last'.ret[1].imported_count = Len(students') - Len(students)
             /\ (Cardinality(Ids(students)) = Len(students)
                    => Cardinality(Ids(students')) = Len(students'))]_vars

\* the columns a row must have
RequiredColumns == {"name", "age", "grade", "email", "performance", "course"}

\* the numbers of the rows of a file that lack a required column
Incomplete(rows) ==
    {k \in 1..Len(rows) : ~(RequiredColumns \subseteq DOMAIN rows[k])}

\* C23: an import adds no record for a row that lacks a required column (name,
\* age, grade, email, performance, course) and returns an error entry for it;
\* only a missing attendance becomes 95.0 and a missing department "General",
\* and a valid row lacking just these is added.
C23_MissingRequiredColumnSkipped ==
    [][last'.op = "import"
          => LET incomplete == Incomplete(input)
             IN /\ Len(students') - Len(students)
                       <= Len(input) - Cardinality(incomplete)
                /\ Len(last'.ret[1].errors) >= Cardinality(incomplete)
                /\ variant = "adv" =>
                      \A k \in 1..Len(input) :
                         LET student_data == RowData(input[k])
                         IN /\ "attendance" \notin DOMAIN input[k]
                                  => student_data.attendance = 95
                            /\ "department" \notin DOMAIN input[k]
                                  => student_data.department = General]_vars

\* C24: an export of an empty store succeeds and its output is a header line
\* without data rows; the import of that output into the empty store succeeds,
\* returns no errors and leaves the store empty (no failure of the file system
\* assumed).
C24_EmptyExportImport ==
    [][(students = <<>> /\ last'.save \in {"ok", "none"})
          => /\ last'.op = "export"
                   => /\ last'.ok
                      /\ last'.ret[1].header # <<>>
                      /\ last'.ret[1].rows = <<>>
             /\ (last.op = "export" /\ last'.op = "import")
                   => /\ last'.ok
                      /\ last'.ret[1].errors = <<>>
                      /\ students' = <<>>]_vars

\* what save_students writes for a list
Saved(studs) == [i \in 1..Len(studs) |-> to_dict(studs[i])]

\* C25: loading a data file that holds what save_students wrote for the list
\* yields the same records in the same order with every field unchanged,
\* last_updated included: load(save(S)) = S.
C25_LoadAfterSave ==
    [][(last'.op = "load" /\ file.state = "valid" /\ file.data = Saved(students))
          => students' = students]_vars

\* the positions of the records of the list whose field is the largest
Leaders(studs, field) ==
    {i \in 1..Len(studs) : \A j \in 1..Len(studs) : studs[j][field] <= studs[i][field]}

\* the record added earliest among them
Earliest(studs, field) == studs[Max({0 - i : i \in Leaders(studs, field)}) * (0 - 1)]

\* C26: the statistics of a store with records name as top performer the
\* record that comes first in the list among those with the largest
\* performance, and as most attended the first among those with the largest
\* attendance: of records that tie, the one added earliest.
C26_FirstAddedWinsTies ==
    [][(last'.op = "stats" /\ students # <<>>)
          => LET stats == last'.ret[1]
             IN IF variant = "basic"
                THEN stats.top_performer = Earliest(students, "performance")
                ELSE /\ stats.top_performer = Earliest(students, "performance").name
                     /\ stats.most_attended = Earliest(students, "attendance").name]_vars

\* statistics returned for a list in which two records tie on the largest
\* performance or attendance
C26_Witness ==
    /\ last.op = "stats"
    /\ Len(students) >= 2
    /\ \/ Cardinality(Leaders(students, "performance")) >= 2
       \/ Cardinality(Leaders(students, "attendance")) >= 2

\* the cache holds a result that is not older than the time to live allows
Fresh == cache_time # <<>> /\ now - cache_time[1] < CACHE_TTL

\* C27: get_statistics returns the cached result only when it was computed
\* less than 30 seconds before and nothing has invalidated it since, so that it
\* is the result for the list as it is; when 30 seconds or more have passed it
\* computes the result from the list and caches it with the time of the call,
\* the result of an empty store included.
C27_CacheTimeToLive ==
    [][(last'.op = "stats" /\ now' = now)
          => /\ last'.ret[1] = ComputeStats(students)
             /\ last'.msg = "cached" => (Fresh /\ last'.ret = cache_stats)
             /\ ~Fresh => /\ last'.msg = "computed"
                          /\ cache_stats' = <<ComputeStats(students)>>
                          /\ cache_time' = <<now>>]_vars

\* the cached result returned 29 seconds after it was computed
C27_Witness ==
    /\ last.op = "stats"
    /\ last.msg = "cached"
    /\ cache_time # <<>>
    /\ now - cache_time[1] = CACHE_TTL - 1

\* C28: get_next_student_id never fails: on a store that holds records whose
\* id has no numeric suffix it returns the id numbered one above the largest
\* numeric suffix of the other ids, and the first id when no id has one.
C28_NextIdIgnoresMalformed ==
    [][last'.op = "next_id"
          => /\ last'.ok
             /\ last'.ret = <<FormatId(Prefix, Max({0} \cup IdNums(students)) + 1)>>]_vars

\* C29: a delete that succeeds removes exactly one record, one that has the
\* given id: every other record stays as it was and in its place in the order,
\* and the list is shorter by one.
C29_DeleteRemovesOne ==
    [][\A i \in CallerIds :
          (last'.op = "delete" /\ last'.ok /\ DeleteCall(i))
              => /\ Len(students') = Len(students) - 1
                 /\ \E k \in 1..Len(students) :
                       /\ students[k].student_id = i
                       /\ students' = RemoveAt(students, k)]_vars

\* C30: when two callers have each taken an id with get_next_student_id and
\* called add_student with a record of that id, in any interleaving of their
\* steps, no two records of the store share an id and the record of each
\* caller is in the store.
C30_ConcurrentRegistrations ==
    (\A c \in Callers : input[c].pc = "done")
        => /\ Cardinality(Ids(students)) = Len(students)
           /\ \A c \in Callers :
                 \E k \in 1..Len(students) :
                    students[k] = Student(input[c].student_id, RegistrantAge(c), now)

====
